---- MODULE Spec2Model ----
(***************************************************************************)
(* Concurrent-safe store for React: the Store (head/committed snapshots    *)
(* and the rebase in handleUpdate), the StoreManager (ref-counted          *)
(* subscriptions, commitAllStates, sweep), the CommitTracker and the       *)
(* useStoreSelector reader hook (render with head, fix up in the layout    *)
(* effect).  The host (React) is modelled by its update queues with two    *)
(* priority classes: lane "S" (immediate) and lane "T" (transition).       *)
(***************************************************************************)
EXTENDS Integers, Sequences, FiniteSets, TLC

\* ------------------------------------------------------------------ bounds
MaxDispatch == 2

MaxTreeOps == 1

\* dispatches under the fixed tree of SpecFixedTree
MaxDispatchFixed == 3

\* how far a reference count is driven by direct calls of the StoreManager
MaxRefs == 3

\* how many times update() is called on the simple store
MaxUpdates == 3

\* the notify() calls made on the emitter used alone
MaxPasses == 2

\* --------------------------------------------------------- the test fixture
Stores == {"A", "B"}
Readers == {"r1", "r2", "r3"}
ReaderOrder == <<"r1", "r2", "r3">>
Actions == {"INCREMENT", "DOUBLE"}

\* the actions the application dispatches to each store
actionsOf(s) == IF s = "A" THEN Actions ELSE {"INCREMENT"}

storeOf(r) == IF r = "r3" THEN "B" ELSE "A"

\* the readers the application may render from the start
InitialReaders == {"r1", "r3"}

initialState(s) == IF s = "A" THEN 2 ELSE 1

reducer(s, a) == IF a = "INCREMENT" THEN s + 1 ELSE s * 2

identity(v) == v

selector(r, v) == identity(v)

Selectors == {"identity", "double"}

NoRef == [store |-> "none", selector |-> "none"]

NoSibling == [store |-> "none", action |-> "none", deferred |-> FALSE]

initialProps(r) == [store |-> storeOf(r), selector |-> "identity"]

VARIABLES
  source,          \* ISource.getState() of each store's source
  state,           \* Store.state (head)
  committedState,  \* Store.committedState
  listeners,       \* Emitter._listeners of each store, in subscription order
  storeRefCounts,  \* StoreManager._storeRefCounts: tracked store -> count
  allStates,       \* CommitTracker's useState value (a StoresSnapshot)
  trackerQueue,    \* CommitTracker's pending setAllStates updates
  shown,           \* each reader's useState value (what its output shows)
  queue,           \* each reader's pending setState updates
  status,          \* each reader's place in the host's tree
  inCommit,        \* layout effects scheduled immediate work: no paint yet
  batchOpen,       \* a deferred batch holds unresolved work
  hist,            \* per store: the actions dispatched, in order
  lastOp,          \* the store whose last event is an immediate dispatch made
                   \* with state = committedState, if the last event is one
  treeOps,         \* how many times the application changed the tree
  how,             \* how each reader on screen was mounted
  managerListeners,\* Emitter._listeners of the StoreManager
  providerMounted, \* <StoreProvider> is in the host's tree
  props,           \* the (store, selector) each reader is passed at its next render
  previousRef,     \* previousStoreRef / previousSelectorRef of each mounted reader
  thrown,          \* the message of the error thrown by a render, if any
  promise,         \* the promise the components pass to use(): "none" when the
                   \* components do not suspend, else "pending" or "fulfilled"
  hidden,          \* the Suspense boundary around the readers shows its fallback
  sibling,         \* the dispatch a component mounting with the next reader
                   \* makes in its layout effect, if there is such a component
  simpleStore,     \* the store object of createStore (useStore.ts), the cache
                   \* of its reader and what useStore last returned
  lastCall,        \* the last Store.handleUpdate call: its arguments, the
                   \* store's fields on entry and on return, and the store's
                   \* fields at each notify() the call made
  listenerStore,   \* the store object of the listener-based createStore and
                   \* the components that subscribed to it through useStore
  swept,           \* the stores sweep() unsubscribed the manager from during
                   \* the last pass of the host (or the last direct call)
  emitter          \* an Emitter used alone: its _listeners, what each
                   \* callback does when called, and the calls made

vars == <<source, state, committedState, listeners, storeRefCounts, allStates,
          trackerQueue, shown, queue, status, inCommit, batchOpen, hist, lastOp,
          treeOps, how, managerListeners, providerMounted, props, previousRef,
          thrown, promise, hidden, sibling, simpleStore, lastCall,
          listenerStore, swept, emitter>>

usageVars == <<props, previousRef, thrown>>

suspenseVars == <<promise, hidden>>

\* ------------------------------------------------------------------ helpers
InSeq(x, q) == \E i \in 1..Len(q) : q[i] = x

SeqFilterOut(q, x) == SelectSeq(q, LAMBDA e : e # x)

SetMax(S) == CHOOSE x \in S : \A y \in S : y <= x

SetMin(S) == CHOOSE x \in S : \A y \in S : x <= y

EmptySnapshot == [s \in {} |-> 0]

\* no handleUpdate call was made yet
NoCall ==
  [store |-> "none", action |-> "none", transitionIsActive |-> FALSE,
   state |-> 0, committedState |-> 0, source |-> 0,
   after |-> [state |-> 0, committedState |-> 0], notified |-> <<>>]

\* the fields every handler reads and writes, as one record
World ==
  [source |-> source, state |-> state, committedState |-> committedState,
   listeners |-> listeners, storeRefCounts |-> storeRefCounts,
   allStates |-> allStates, trackerQueue |-> trackerQueue,
   shown |-> shown, queue |-> queue, managerListeners |-> managerListeners,
   lastCall |-> lastCall, swept |-> swept]

Install(w) ==
  /\ source' = w.source
  /\ state' = w.state
  /\ committedState' = w.committedState
  /\ listeners' = w.listeners
  /\ storeRefCounts' = w.storeRefCounts
  /\ allStates' = w.allStates
  /\ trackerQueue' = w.trackerQueue
  /\ shown' = w.shown
  /\ queue' = w.queue
  /\ managerListeners' = w.managerListeners
  /\ lastCall' = w.lastCall
  /\ swept' = w.swept

\* --------------------------------------------------------------- the Emitter
subscribe(w, s, id) == [w EXCEPT !.listeners[s] = Append(@, id)]

unsubscribe(w, s, id) == [w EXCEPT !.listeners[s] = SeqFilterOut(@, id)]

\* ----------------------------------------------------------- StoreManager
getAllStates(w) == [s \in DOMAIN w.storeRefCounts |-> w.state[s]]

getAllCommittedStates(w) == [s \in DOMAIN w.storeRefCounts |-> w.committedState[s]]

\* (faulty variant) a reader's listener reads the committed state, not the head
notifyCommittedState(w, s, lane) ==
  [w EXCEPT
     !.queue = [r \in Readers |->
                  IF InSeq(r, w.listeners[s])
                    THEN Append(w.queue[r],
                                [lane |-> lane,
                                 val |-> selector(r, w.committedState[s])])
                    ELSE w.queue[r]],
     !.trackerQueue = IF InSeq("manager", w.listeners[s])
                           /\ InSeq("tracker", w.managerListeners)
                        THEN Append(@, [lane |-> lane, val |-> getAllStates(w)])
                        ELSE @,
     !.lastCall.notified = Append(@, [lane |-> lane, state |-> w.state[s],
                                      committedState |-> w.committedState[s]])]

\* (faulty variant) the listeners of every store run, not only those of store s
notifyEveryStore(w, s, lane) ==
  [w EXCEPT
     !.queue = [r \in Readers |->
                  IF \E x \in Stores : InSeq(r, w.listeners[x])
                    THEN Append(w.queue[r],
                                [lane |-> lane, val |-> selector(r, w.state[s])])
                    ELSE w.queue[r]],
     !.trackerQueue = IF InSeq("manager", w.listeners[s])
                           /\ InSeq("tracker", w.managerListeners)
                        THEN Append(@, [lane |-> lane, val |-> getAllStates(w)])
                        ELSE @,
     !.lastCall.notified = Append(@, [lane |-> lane, state |-> w.state[s],
                                      committedState |-> w.committedState[s]])]

\* Store.notify(): every listener runs, reading the store at notify time.
\* A reader's listener queues setState(selector(store.getState())); the
\* manager's listener relays to the CommitTracker, which queues
\* setAllStates(storeManager.getAllStates()).  `lane` is the priority the host
\* gives to updates queued in the caller's context.
notify(w, s, lane) ==
  [w EXCEPT
     !.queue = [r \in Readers |->
                  IF InSeq(r, w.listeners[s])
                    THEN Append(w.queue[r],
                                [lane |-> lane, val |-> selector(r, w.state[s])])
                    ELSE w.queue[r]],
     !.trackerQueue = IF InSeq("manager", w.listeners[s])
                           /\ InSeq("tracker", w.managerListeners)
                        THEN Append(@, [lane |-> lane, val |-> getAllStates(w)])
                        ELSE @,
     !.lastCall.notified = Append(@, [lane |-> lane, state |-> w.state[s],
                                      committedState |-> w.committedState[s]])]

\* (faulty variant) every addStore subscribes, also when the store has an entry
addStoreAlwaysSubscribes(w, s) ==
  LET w1 == subscribe(w, s, "manager")
  IN IF s \notin DOMAIN w.storeRefCounts
       THEN [w1 EXCEPT !.storeRefCounts =
               [x \in (DOMAIN w.storeRefCounts) \cup {s} |->
                  IF x = s THEN 1 ELSE w.storeRefCounts[x]]]
       ELSE [w1 EXCEPT !.storeRefCounts[s] = @ + 1]

addStore(w, s) ==
  IF s \notin DOMAIN w.storeRefCounts
    THEN LET w1 == subscribe(w, s, "manager")
         IN [w1 EXCEPT !.storeRefCounts =
               [x \in (DOMAIN w.storeRefCounts) \cup {s} |->
                  IF x = s THEN 1 ELSE w.storeRefCounts[x]]]
    ELSE [w EXCEPT !.storeRefCounts[s] = @ + 1]

\* removeStore throws: the store has no entry
removeStoreThrows(w, s) == s \notin DOMAIN w.storeRefCounts

\* (faulty variant) the last removeStore unsubscribes and deletes the entry
removeStoreEager(w, s) ==
  IF s \notin DOMAIN w.storeRefCounts
    THEN w
    ELSE IF w.storeRefCounts[s] = 1
      THEN [w EXCEPT
              !.listeners[s] = SeqFilterOut(@, "manager"),
              !.storeRefCounts = [x \in (DOMAIN w.storeRefCounts) \ {s} |->
                                    w.storeRefCounts[x]]]
      ELSE [w EXCEPT !.storeRefCounts[s] = @ - 1]

\* (faulty variant) a store without an entry gets one, nothing is thrown
removeStoreLenient(w, s) ==
  IF s \notin DOMAIN w.storeRefCounts
    THEN [w EXCEPT !.storeRefCounts =
            [x \in (DOMAIN w.storeRefCounts) \cup {s} |->
               IF x = s THEN 0 ELSE w.storeRefCounts[x]]]
    ELSE [w EXCEPT !.storeRefCounts[s] = @ - 1]

\* throws when the store is not tracked (nothing is changed then)
removeStore(w, s) ==
  IF s \notin DOMAIN w.storeRefCounts
    THEN w
    ELSE [w EXCEPT !.storeRefCounts[s] = @ - 1]

\* (faulty variant) sweep also removes the entries whose count is exactly 1
sweepBelowTwo(w) ==
  LET dead == {s \in DOMAIN w.storeRefCounts : w.storeRefCounts[s] < 2}
  IN [w EXCEPT
        !.listeners = [s \in Stores |->
                         IF s \in dead THEN SeqFilterOut(w.listeners[s], "manager")
                                       ELSE w.listeners[s]],
        !.storeRefCounts = [s \in (DOMAIN w.storeRefCounts) \ dead |->
                              w.storeRefCounts[s]],
        !.swept = @ \cup dead]

sweep(w) ==
  LET dead == {s \in DOMAIN w.storeRefCounts : w.storeRefCounts[s] < 1}
  IN [w EXCEPT
        !.listeners = [s \in Stores |->
                         IF s \in dead THEN SeqFilterOut(w.listeners[s], "manager")
                                       ELSE w.listeners[s]],
        !.storeRefCounts = [s \in (DOMAIN w.storeRefCounts) \ dead |->
                              w.storeRefCounts[s]],
        !.swept = @ \cup dead]

\* (faulty variant) commit notifies the store's listeners
commitNotifies(w, s, st) ==
  notify([w EXCEPT !.committedState[s] = st], s, "S")

\* Store.commit(state): this.committedState = state
commit(w, s, st) ==
  [w EXCEPT !.committedState[s] = st]

\* the loop of commitAllStates: store.commit(state) for the entries S of the
\* snapshot
RECURSIVE commitEntries(_, _, _)
commitEntries(w, snapshot, S) ==
  IF S = {} THEN w
  ELSE LET s == CHOOSE x \in S : TRUE
       IN commitEntries(commit(w, s, snapshot[s]), snapshot, S \ {s})

\* (faulty variant) sweep runs first and only the stores it left are committed
commitAllStatesSweepFirst(w, snapshot) ==
  LET w1 == sweep(w)
  IN [w1 EXCEPT !.committedState =
        [s \in Stores |-> IF s \in DOMAIN snapshot /\ s \in DOMAIN w1.storeRefCounts
                            THEN snapshot[s]
                            ELSE w.committedState[s]]]

\* Store.commit(state) for every entry of the snapshot, then sweep()
commitAllStates(w, snapshot) ==
  sweep(commitEntries(w, snapshot, DOMAIN snapshot))

\* ------------------------------------------------------------------- Store
\* (faulty variant) an immediate update notifies before it assigns the new state
handleUpdateNotifyFirst(w, s, action, transitionIsActive) ==
  LET noPendingTransitions == w.committedState[s] = w.state[s]
      w1 == [w EXCEPT !.state[s] = w.source[s]]
  IN IF transitionIsActive
       THEN notify(w1, s, "T")
       ELSE IF noPendingTransitions
         THEN [notify(w, s, "S") EXCEPT !.state[s] = w.source[s],
                                        !.committedState[s] = w.source[s]]
         ELSE LET newState == w1.state[s]
                  w2 == [w1 EXCEPT !.committedState[s] =
                                      reducer(w1.committedState[s], action)]
                  w3 == [w2 EXCEPT !.state[s] = w2.committedState[s]]
                  w4 == notify(w3, s, "S")
                  w5 == [w4 EXCEPT !.state[s] = newState]
              IN notify(w5, s, "T")

\* (faulty variant) the rebase case saves the state held on entry, before the
\* source's state was read, and ends on it
handleUpdateRestoreEntryHead(w, s, action, transitionIsActive) ==
  LET noPendingTransitions == w.committedState[s] = w.state[s]
      w1 == [w EXCEPT !.state[s] = w.source[s]]
  IN IF transitionIsActive
       THEN notify(w1, s, "T")
       ELSE IF noPendingTransitions
         THEN notify([w1 EXCEPT !.committedState[s] = w1.state[s]], s, "S")
         ELSE LET newState == w.state[s]
                  w2 == [w1 EXCEPT !.committedState[s] =
                                      reducer(w1.committedState[s], action)]
                  w3 == [w2 EXCEPT !.state[s] = w2.committedState[s]]
                  w4 == notify(w3, s, "S")
                  w5 == [w4 EXCEPT !.state[s] = newState]
              IN notify(w5, s, "T")

\* (faulty variant) an update made in a transition is marked committed at once
handleUpdateCommitsDeferred(w, s, action, transitionIsActive) ==
  LET noPendingTransitions == w.committedState[s] = w.state[s]
      w1 == [w EXCEPT !.state[s] = w.source[s]]
  IN IF transitionIsActive
       THEN notify([w1 EXCEPT !.committedState[s] = w1.state[s]], s, "T")
       ELSE IF noPendingTransitions
         THEN notify([w1 EXCEPT !.committedState[s] = w1.state[s]], s, "S")
         ELSE LET newState == w1.state[s]
                  w2 == [w1 EXCEPT !.committedState[s] =
                                      reducer(w1.committedState[s], action)]
                  w3 == [w2 EXCEPT !.state[s] = w2.committedState[s]]
                  w4 == notify(w3, s, "S")
                  w5 == [w4 EXCEPT !.state[s] = newState]
              IN notify(w5, s, "T")

\* (faulty variant) the rebase case notifies once, after the state is reset
handleUpdateRebaseNotifiesOnce(w, s, action, transitionIsActive) ==
  LET noPendingTransitions == w.committedState[s] = w.state[s]
      w1 == [w EXCEPT !.state[s] = w.source[s]]
  IN IF transitionIsActive
       THEN notify(w1, s, "T")
       ELSE IF noPendingTransitions
         THEN notify([w1 EXCEPT !.committedState[s] = w1.state[s]], s, "S")
         ELSE LET newState == w1.state[s]
                  w2 == [w1 EXCEPT !.committedState[s] =
                                      reducer(w1.committedState[s], action)]
                  w5 == [w2 EXCEPT !.state[s] = newState]
              IN notify(w5, s, "T")

\* (faulty variant) the plain case marks the headState found on entry as
\* committed
handleUpdatePlainCommitsEntryHead(w, s, action, transitionIsActive) ==
  LET noPendingTransitions == w.committedState[s] = w.state[s]
      w1 == [w EXCEPT !.state[s] = w.source[s]]
  IN IF transitionIsActive
       THEN notify(w1, s, "T")
       ELSE IF noPendingTransitions
         THEN notify([w1 EXCEPT !.committedState[s] = w.state[s]], s, "S")
         ELSE LET newState == w1.state[s]
                  w2 == [w1 EXCEPT !.committedState[s] =
                                      reducer(w1.committedState[s], action)]
                  w3 == [w2 EXCEPT !.state[s] = w2.committedState[s]]
                  w4 == notify(w3, s, "S")
                  w5 == [w4 EXCEPT !.state[s] = newState]
              IN notify(w5, s, "T")

\* Store.handleUpdate(action); the source has already applied the action.
\* transitionIsActive is reactTransitionIsActive() at the call.
handleUpdate(w, s, action, transitionIsActive) ==
  LET noPendingTransitions == w.committedState[s] = w.state[s]
      w1 == [w EXCEPT !.state[s] = w.source[s]]
  IN IF transitionIsActive
       THEN notify(w1, s, "T")
       ELSE IF noPendingTransitions
         THEN notify([w1 EXCEPT !.committedState[s] = w1.state[s]], s, "S")
         ELSE LET newState == w1.state[s]
                  w2 == [w1 EXCEPT !.committedState[s] =
                                      reducer(w1.committedState[s], action)]
                  w3 == [w2 EXCEPT !.state[s] = w2.committedState[s]]
                  w4 == notify(w3, s, "S")
                  w5 == [w4 EXCEPT !.state[s] = newState]
              IN notify(w5, s, "T")

\* source.dispatch(action) followed by store.handleUpdate(action): the source
\* applies the action, then the store handles it; lastCall keeps what the
\* call was given, found and left
dispatch(w, s, action, transitionIsActive) ==
  LET w0 == [w EXCEPT !.source[s] = reducer(@, action),
                      !.lastCall = [NoCall EXCEPT
                                      !.store = s, !.action = action,
                                      !.transitionIsActive = transitionIsActive,
                                      !.state = w.state[s],
                                      !.committedState = w.committedState[s],
                                      !.source = reducer(w.source[s], action)]]
      w1 == handleUpdate(w0, s, action, transitionIsActive)
  IN [w1 EXCEPT !.lastCall.after = [state |-> w1.state[s],
                                    committedState |-> w1.committedState[s]]]

\* (faulty variant) the self-contained store's plain case notifies without
\* marking the new state committed
storeDispatchPlainKeepsCommitted(w, s, action, transitionIsActive) ==
  LET noPendingTransitions == w.committedState[s] = w.state[s]
      w1 == [w EXCEPT !.state[s] = reducer(@, action)]
  IN IF transitionIsActive
       THEN notify(w1, s, "T")
       ELSE IF noPendingTransitions
         THEN notify(w1, s, "S")
         ELSE LET newState == w1.state[s]
                  w2 == [w1 EXCEPT !.committedState[s] =
                                      reducer(w1.committedState[s], action)]
                  w3 == [w2 EXCEPT !.state[s] = w2.committedState[s]]
                  w4 == notify(w3, s, "S")
                  w5 == [w4 EXCEPT !.state[s] = newState]
              IN notify(w5, s, "T")

\* Store.dispatch(action) of the self-contained store: the store holds the
\* reducer and applies it to its own state; it reads no source
storeDispatch(w, s, action, transitionIsActive) ==
  LET noPendingTransitions == w.committedState[s] = w.state[s]
      w1 == [w EXCEPT !.state[s] = reducer(@, action)]
  IN IF transitionIsActive
       THEN notify(w1, s, "T")
       ELSE IF noPendingTransitions
         THEN notify([w1 EXCEPT !.committedState[s] = w1.state[s]], s, "S")
         ELSE LET newState == w1.state[s]
                  w2 == [w1 EXCEPT !.committedState[s] =
                                      reducer(w1.committedState[s], action)]
                  w3 == [w2 EXCEPT !.state[s] = w2.committedState[s]]
                  w4 == notify(w3, s, "S")
                  w5 == [w4 EXCEPT !.state[s] = newState]
              IN notify(w5, s, "T")

\* ------------------------------------------------------- the host's useState
\* One render of a hook's update queue.  A render of the immediate lane skips
\* transition updates; the skipped update and everything after it stay queued
\* (the ones already applied as lane "N", applied again by every later render),
\* so that the transition render replays all of them in dispatch order.
processQueue(q, cur, lanes) ==
  LET vis(e) == lanes = "all" \/ e.lane # "T"
      idxVis == {i \in 1..Len(q) : vis(q[i])}
      idxSkip == {i \in 1..Len(q) : ~vis(q[i])}
      first == SetMin(idxSkip)
  IN [val |-> IF idxVis = {} THEN cur ELSE q[SetMax(idxVis)].val,
      queue |-> IF idxSkip = {} THEN <<>>
                ELSE [i \in 1..(Len(q) - first + 1) |->
                        IF vis(q[i + first - 1])
                          THEN [q[i + first - 1] EXCEPT !.lane = "N"]
                          ELSE q[i + first - 1]],
      changed |-> \E i \in idxVis : q[i].lane # "N"]

setState(w, r, lane, v) ==
  [w EXCEPT !.queue[r] = Append(@, [lane |-> lane, val |-> v])]

\* ------------------------------------------------------- useStoreSelector
\* (faulty variant) a changed store is accepted
useStoreSelectorCheckNoStore(hasManager, prop, ref) ==
  IF ~hasManager
    THEN "Expected useStoreSelector to be rendered within a StoreProvider."
  ELSE IF ref # NoRef /\ prop.selector # ref.selector
    THEN "useStoreSelector does not currently support dynamic selectors"
  ELSE "none"

\* (faulty variant) a changed selector is accepted
useStoreSelectorCheckNoSelector(hasManager, prop, ref) ==
  IF ~hasManager
    THEN "Expected useStoreSelector to be rendered within a StoreProvider."
  ELSE IF ref # NoRef /\ prop.store # ref.store
    THEN "useStoreSelector does not currently support dynamic stores"
  ELSE "none"

\* (faulty variant) a missing provider is accepted
useStoreSelectorCheckNoProvider(hasManager, prop, ref) ==
  IF ref # NoRef /\ prop.store # ref.store
    THEN "useStoreSelector does not currently support dynamic stores"
  ELSE IF ref # NoRef /\ prop.selector # ref.selector
    THEN "useStoreSelector does not currently support dynamic selectors"
  ELSE "none"

\* the checks at the top of every render of the hook: the error thrown, or
\* "none".  useRef keeps the value of the first render, so a first render
\* (ref = NoRef) passes the two identity checks.
useStoreSelectorCheck(hasManager, prop, ref) ==
  IF ~hasManager
    THEN "Expected useStoreSelector to be rendered within a StoreProvider."
  ELSE IF ref # NoRef /\ prop.store # ref.store
    THEN "useStoreSelector does not currently support dynamic stores"
  ELSE IF ref # NoRef /\ prop.selector # ref.selector
    THEN "useStoreSelector does not currently support dynamic selectors"
  ELSE "none"

\* first render of a reader: useState(() => selector(store.getState()))
useStoreSelectorMount(w, r) ==
  [w EXCEPT !.shown[r] = selector(r, w.state[storeOf(r)]), !.queue[r] = <<>>]

\* a later render of a mounted reader
useStoreSelectorRender(w, r, lanes) ==
  LET p == processQueue(w.queue[r], w.shown[r], lanes)
  IN [w EXCEPT !.shown[r] = p.val, !.queue[r] = p.queue]

\* (faulty variant) the layout effect registers and subscribes only
useStoreSelectorLayoutEffectNoFixup(w, r) ==
  subscribe(addStore(w, storeOf(r)), storeOf(r), r)

\* the layout effect run once when the reader is committed
useStoreSelectorLayoutEffect(w, r) ==
  LET store == storeOf(r)
      w1 == addStore(w, store)
      mountState == selector(r, w1.state[store])
      mountCommittedState == selector(r, w1.committedState[store])
      w2 == IF w1.shown[r] # mountCommittedState
              THEN setState(w1, r, "S", mountCommittedState)
              ELSE w1
      w3 == IF mountState # mountCommittedState
              THEN setState(w2, r, "T", mountState)
              ELSE w2
  IN subscribe(w3, store, r)

\* (faulty variant) the cleanup unsubscribes the reader and keeps its reference
useStoreSelectorEffectCleanupNoRemove(w, r) ==
  unsubscribe(w, storeOf(r), r)

\* the layout effect's cleanup: unsubscribe(); storeManager.removeStore(store)
useStoreSelectorEffectCleanup(w, r) ==
  removeStore(unsubscribe(w, storeOf(r), r), storeOf(r))

\* the reader is removed: the cleanup runs and the hook's state is dropped
useStoreSelectorCleanup(w, r) ==
  LET w1 == useStoreSelectorEffectCleanup(w, r)
  IN [w1 EXCEPT !.shown[r] = 0, !.queue[r] = <<>>]

\* (faulty variant) the component never suspends
SuspendOnEvenNever(v) == FALSE

\* SuspendOnEven: the component calls use(suspensePromise) when the value its
\* reader returns is even, which suspends while the promise is pending
SuspendOnEven(v) == promise = "pending" /\ v % 2 = 0

\* ----------------------------------------------------------- CommitTracker
CommitTrackerRender(w, lanes) ==
  LET p == processQueue(w.trackerQueue, w.allStates, lanes)
  IN [w EXCEPT !.allStates = p.val, !.trackerQueue = p.queue]

\* useEffect: storeManager.subscribe(() => setAllStates(getAllStates()))
CommitTrackerEffect(w) == [w EXCEPT !.managerListeners = Append(@, "tracker")]

\* (faulty variant) the cleanup releases the tracker's subscription only
CommitTrackerCleanupNoSweep(w) ==
  [w EXCEPT !.managerListeners = SeqFilterOut(@, "tracker")]

\* the effect's cleanup: unsub(); storeManager.sweep()
CommitTrackerCleanup(w) ==
  sweep([w EXCEPT !.managerListeners = SeqFilterOut(@, "tracker")])

\* useLayoutEffect(() => storeManager.commitAllStates(allStates), [.., allStates])
CommitTrackerLayoutEffect(w, changed) ==
  IF changed THEN commitAllStates(w, w.allStates) ELSE w

\* ------------------------------------------------------ one pass of the host
RECURSIVE RenderAll(_, _, _)
RenderAll(w, rs, lanes) ==
  IF rs = <<>> THEN w
  ELSE RenderAll(useStoreSelectorRender(w, Head(rs), lanes), Tail(rs), lanes)

RECURSIVE MountAll(_, _)
MountAll(w, rs) ==
  IF rs = <<>> THEN w ELSE MountAll(useStoreSelectorMount(w, Head(rs)), Tail(rs))

RECURSIVE CleanupAll(_, _)
CleanupAll(w, rs) ==
  IF rs = <<>> THEN w ELSE CleanupAll(useStoreSelectorCleanup(w, Head(rs)), Tail(rs))

RECURSIVE HideAll(_, _)
HideAll(w, rs) ==
  IF rs = <<>> THEN w
  ELSE HideAll(useStoreSelectorEffectCleanup(w, Head(rs)), Tail(rs))

RECURSIVE LayoutAll(_, _)
LayoutAll(w, rs) ==
  IF rs = <<>> THEN w
  ELSE LayoutAll(useStoreSelectorLayoutEffect(w, Head(rs)), Tail(rs))

InOrder(S) == SelectSeq(ReaderOrder, LAMBDA r : r \in S)

\* a reader whose first render suspended is rendered again by the next
\* transition render
Mounting(lanes) ==
  {r \in Readers : \/ status[r] = "mountS"
                   \/ (lanes = "all" /\ status[r] \in {"mountT", "suspended"})}

Unmounting(lanes) ==
  {r \in Readers : status[r] = "unmountS" \/ (lanes = "all" /\ status[r] = "unmountT")}

Present == {r \in Readers : status[r] \in {"mounted", "unmountS", "unmountT"}}

\* the readers whose layout effects run again because the boundary shows its
\* content again
Revealed(lanes) ==
  IF hidden /\ lanes = "all" THEN Present \ Unmounting(lanes) ELSE {}

\* render phase, removal of deleted readers, then the layout effects in tree
\* order: the CommitTracker is the provider's first child, then the component
\* that dispatches in its layout effect (if one mounts), then the readers
Commit(w, lanes) ==
  LET trackerChanged == processQueue(w.trackerQueue, w.allStates, lanes).changed
      w1 == CommitTrackerRender([w EXCEPT !.swept = {}], lanes)
      w2 == RenderAll(w1, InOrder(Present \ Unmounting(lanes)), lanes)
      w3 == MountAll(w2, InOrder(Mounting(lanes)))
      w4 == CleanupAll(w3, InOrder(Unmounting(lanes)))
      w5 == CommitTrackerLayoutEffect(w4, trackerChanged)
      w6 == IF sibling # NoSibling /\ Mounting(lanes) # {}
              THEN dispatch(w5, sibling.store, sibling.action, sibling.deferred)
              ELSE w5
  IN LayoutAll(w6, InOrder(Mounting(lanes) \cup Revealed(lanes)))

\* the mounting readers whose first render suspends
SuspendingMounts(lanes) ==
  {r \in Mounting(lanes) : SuspendOnEven(selector(r, state[storeOf(r)]))}

\* a render of every lane in which some component suspends: the host keeps
\* what is on screen and does not commit the transition
WouldSuspend ==
  \/ SuspendingMounts("all") # {}
  \/ \E r \in Present \ Unmounting("all") :
        SuspendOnEven(processQueue(queue[r], shown[r], "all").val)

\* a pass of the immediate lane in which a mounting reader suspends: the
\* boundary switches to its fallback.  The suspended reader is not committed
\* (no layout effect); the readers already on screen are hidden and the host
\* runs their layout effect cleanups.
CommitFallback(w) ==
  LET trackerChanged == processQueue(w.trackerQueue, w.allStates, "sync").changed
      w1 == CommitTrackerRender([w EXCEPT !.swept = {}], "sync")
      w2 == RenderAll(w1, InOrder(Present \ Unmounting("sync")), "sync")
      w3 == CleanupAll(w2, InOrder(Unmounting("sync")))
      w4 == IF hidden THEN w3
            ELSE HideAll(w3, InOrder(Present \ Unmounting("sync")))
  IN CommitTrackerLayoutEffect(w4, trackerChanged)

HasLane(w, l) ==
  \/ \E r \in Readers : \E i \in 1..Len(w.queue[r]) : w.queue[r][i].lane = l
  \/ \E i \in 1..Len(w.trackerQueue) : w.trackerQueue[i].lane = l

\* the error of the first reader, in tree order, whose render throws
RenderError ==
  LET bad == SelectSeq(ReaderOrder, LAMBDA r :
                 status[r] # "unmounted"
                 /\ useStoreSelectorCheck(providerMounted, props[r], previousRef[r])
                      # "none")
  IN IF bad = <<>> THEN "none"
     ELSE useStoreSelectorCheck(providerMounted, props[Head(bad)], previousRef[Head(bad)])

SyncPending ==
  \/ HasLane(World, "S")
  \/ \E r \in Present : props[r] # previousRef[r]
  \/ \E r \in Readers : status[r] \in {"mountS", "unmountS"}

TransPending ==
  \/ batchOpen
  \/ HasLane(World, "T")
  \/ \E r \in Readers : status[r] \in {"mountT", "unmountT", "suspended"}

Dispatched == Len(hist["A"]) + Len(hist["B"])

\* a deferred action of store s is dispatched and not yet resolved
Unresolved(s) ==
  \E i \in 1..Len(hist[s]) : hist[s][i].deferred /\ ~hist[s][i].resolved

BlankWorld ==
  [source |-> [s \in Stores |-> initialState(s)],
   state |-> [s \in Stores |-> initialState(s)],
   committedState |-> [s \in Stores |-> initialState(s)],
   listeners |-> [s \in Stores |-> <<>>],
   storeRefCounts |-> EmptySnapshot,
   allStates |-> EmptySnapshot,
   trackerQueue |-> <<>>,
   shown |-> [r \in Readers |-> 0],
   queue |-> [r \in Readers |-> <<>>],
   managerListeners |-> <<>>,
   lastCall |-> NoCall,
   swept |-> {}]

\* the state after the first render of <StoreProvider> with the readers M under
\* it: the CommitTracker rendered getAllCommittedStates() of an empty manager,
\* then each reader's layout effect ran, then the CommitTracker's effect
\* the components that call useStore on the listener-based store
Components == {"c1", "c2", "c3"}

ComponentOrder == <<"c1", "c2", "c3">>

\* no listener-based store was created
NoListenerStore ==
  [hasReducer |-> FALSE, current |-> 0, sync |-> 0, transition |-> 0,
   listeners |-> <<>>,
   cache |-> [c \in Components |-> 0],
   queue |-> [c \in Components |-> <<>>],
   scheduled |-> [c \in Components |-> "none"],
   updates |-> 0]

\* the callbacks subscribed to an Emitter used alone
Callbacks == {"a", "b", "c"}

\* what a callback does when it is called: it calls the unsubscribe function
\* of one callback, or of nobody
Targets == Callbacks \cup {"nobody"}

\* no Emitter is used alone
NoEmitter == "none"

\* new Emitter(): _listeners = []; does is what each callback will do when
\* called
newEmitter(does) ==
  [_listeners |-> <<>>,
   does |-> does,
   subscribed |-> {},     \* the callbacks subscribe() was called with
   unsubscribed |-> {},   \* the callbacks whose unsubscribe has returned
   before |-> {},         \* those of them it had returned for when the
                          \* last notify() began
   invoked |-> <<>>,      \* the calls of the last notify(), in order
   late |-> {},           \* called after their unsubscribe had returned
   stale |-> {},          \* called in a notify() begun after it had
   passes |-> 0]

\* no simple store was created
NoSimpleStore ==
  [hasReducer |-> FALSE, initialValue |-> 0, sync |-> 0, hasTransition |-> FALSE,
   transition |-> 0, current |-> 0, refreshed |-> FALSE, returned |-> 0,
   log |-> <<>>]

InitFrom(w0, M) ==
  LET w == CommitTrackerEffect(LayoutAll(MountAll(w0, InOrder(M)), InOrder(M)))
  IN /\ managerListeners = w.managerListeners
     /\ lastCall = w.lastCall
     /\ swept = w.swept
     /\ listenerStore = NoListenerStore
     /\ emitter = NoEmitter
     /\ props = [r \in Readers |-> initialProps(r)]
     /\ previousRef = [r \in Readers |-> IF r \in M THEN initialProps(r) ELSE NoRef]
     /\ thrown = "none"
     /\ hidden = FALSE
     /\ sibling = NoSibling
     /\ simpleStore = NoSimpleStore
     /\ providerMounted = TRUE
     /\ source = w.source
     /\ state = w.state
     /\ committedState = w.committedState
     /\ listeners = w.listeners
     /\ storeRefCounts = w.storeRefCounts
     /\ allStates = w.allStates
     /\ trackerQueue = w.trackerQueue
     /\ shown = w.shown
     /\ queue = w.queue
     /\ status = [r \in Readers |-> IF r \in M THEN "mounted" ELSE "unmounted"]
     /\ how = [r \in Readers |-> IF r \in M THEN "sync" ELSE "none"]

InitWith(M) == InitFrom(BlankWorld, M) /\ promise = "none"

Init ==
  /\ \E M \in SUBSET InitialReaders : InitWith(M)
  /\ inCommit = FALSE
  /\ batchOpen = FALSE
  /\ hist = [s \in Stores |-> <<>>]
  /\ lastOp = "other"
  /\ treeOps = 0

\* the application applies `action` to the store's source and calls
\* handleUpdate, inside startTransition (deferred) or not
DispatchStep(s, action, deferred) ==
  /\ providerMounted
  /\ ~inCommit
  /\ \E w1 \in {dispatch(World, s, action, deferred)} :
        /\ Install(w1)
        /\ lastOp' = IF ~deferred /\ committedState[s] = state[s] THEN s ELSE "other"
  /\ hist' = [hist EXCEPT ![s] = Append(@, [action |-> action,
                                           deferred |-> deferred,
                                           resolved |-> FALSE])]
  /\ batchOpen' = (batchOpen \/ deferred)
  /\ UNCHANGED <<status, inCommit, treeOps, how, providerMounted, usageVars,
                 suspenseVars, sibling, simpleStore, listenerStore, emitter>>

Dispatch(s, action, deferred) ==
  /\ Dispatched < MaxDispatch
  /\ DispatchStep(s, action, deferred)

DispatchFixed(s, action, deferred) ==
  /\ Dispatched < MaxDispatchFixed
  /\ DispatchStep(s, action, deferred)

\* the application asks the host to show a reader (setShowOther(true)),
\* inside startTransition or not
ShowReaderStep(r, deferred) ==
  /\ providerMounted
  /\ ~inCommit
  /\ treeOps < MaxTreeOps
  /\ status[r] = "unmounted"
  /\ status' = [status EXCEPT ![r] = IF deferred THEN "mountT" ELSE "mountS"]
  /\ batchOpen' = (batchOpen \/ deferred)
  /\ lastOp' = "other"
  /\ treeOps' = treeOps + 1
  /\ UNCHANGED <<lastCall, swept, source, state, committedState, listeners, storeRefCounts,
                 allStates, trackerQueue, shown, queue, inCommit, hist, how,
                 managerListeners, providerMounted, usageVars, suspenseVars, simpleStore, listenerStore, emitter>>

ShowReader(r, deferred) == ShowReaderStep(r, deferred) /\ UNCHANGED sibling

HideReader(r, deferred) ==
  /\ providerMounted
  /\ ~inCommit
  /\ treeOps < MaxTreeOps
  /\ status[r] = "mounted"
  /\ status' = [status EXCEPT ![r] = IF deferred THEN "unmountT" ELSE "unmountS"]
  /\ batchOpen' = (batchOpen \/ deferred)
  /\ lastOp' = "other"
  /\ treeOps' = treeOps + 1
  /\ UNCHANGED <<lastCall, swept, source, state, committedState, listeners, storeRefCounts,
                 allStates, trackerQueue, shown, queue, inCommit, hist, how,
                 managerListeners, providerMounted, usageVars, suspenseVars, sibling, simpleStore, listenerStore, emitter>>

\* the tree is removed: every mounted reader's layout effect cleanup runs,
\* then the CommitTracker's effect cleanup; the components' state goes with it
Teardown(w) ==
  [CommitTrackerCleanup(
     CleanupAll([w EXCEPT !.swept = {}],
                IF hidden THEN <<>> ELSE InOrder(Present))) EXCEPT
     !.shown = [r \in Readers |-> 0],
     !.queue = [r \in Readers |-> <<>>],
     !.allStates = EmptySnapshot,
     !.trackerQueue = <<>>]

\* one pass of the host.  A render that throws commits nothing; with no error
\* boundary the host removes the tree and hands the error to the caller.
Render(lanes) ==
  /\ providerMounted
  /\ UNCHANGED <<treeOps, props, promise, simpleStore, listenerStore, emitter>>
  /\ IF RenderError # "none"
       THEN /\ thrown' = RenderError
            /\ providerMounted' = FALSE
            /\ Install(Teardown(World))
            /\ status' = [r \in Readers |-> "unmounted"]
            /\ how' = [r \in Readers |-> "none"]
            /\ previousRef' = [r \in Readers |-> NoRef]
            /\ inCommit' = FALSE
            /\ hidden' = FALSE
            /\ sibling' = NoSibling
       ELSE IF lanes = "sync" /\ SuspendingMounts("sync") # {}
       THEN /\ UNCHANGED <<thrown, providerMounted, previousRef, how, sibling>>
            /\ \E w1 \in {CommitFallback(World)} :
                 /\ Install(w1)
                 /\ inCommit' = HasLane(w1, "S")
            /\ status' = [r \in Readers |->
                            IF r \in Mounting("sync") THEN "suspended"
                            ELSE IF r \in Unmounting("sync") THEN "unmounted"
                            ELSE status[r]]
            /\ hidden' = TRUE
       ELSE /\ UNCHANGED <<thrown, providerMounted>>
            /\ \E w1 \in {Commit(World, lanes)} :
                 /\ Install(w1)
                 /\ inCommit' = HasLane(w1, "S")
            /\ hidden' = (hidden /\ lanes # "all")
            /\ sibling' = IF Mounting(lanes) # {} THEN NoSibling ELSE sibling
            /\ status' = [r \in Readers |->
                            IF r \in Mounting(lanes) THEN "mounted"
                            ELSE IF r \in Unmounting(lanes) THEN "unmounted"
                            ELSE status[r]]
            /\ previousRef' = [r \in Readers |->
                                 IF r \in Mounting(lanes) THEN props[r]
                                 ELSE IF r \in Unmounting(lanes) THEN NoRef
                                 ELSE previousRef[r]]
            /\ how' = [r \in Readers |->
                         IF r \in Unmounting(lanes) THEN "none"
                         ELSE IF r \notin Mounting(lanes) THEN how[r]
                         ELSE IF sibling # NoSibling THEN "raced"
                         ELSE IF lanes = "all" THEN "batch"
                         ELSE IF Unresolved(storeOf(r)) THEN "mid"
                         ELSE "sync"]

\* the component mounting with the reader dispatches during this pass
SiblingFires(lanes) ==
  /\ sibling # NoSibling
  /\ Mounting(lanes) # {}
  /\ RenderError = "none"
  /\ ~(lanes = "sync" /\ SuspendingMounts("sync") # {})

SiblingEntry ==
  [action |-> sibling.action, deferred |-> sibling.deferred, resolved |-> FALSE]

\* the host renders and commits the immediate lane
Flush ==
  /\ SyncPending
  /\ Render("sync")
  /\ IF SiblingFires("sync")
       THEN /\ hist' = [hist EXCEPT ![sibling.store] = Append(@, SiblingEntry)]
            /\ batchOpen' = (batchOpen \/ sibling.deferred)
            /\ lastOp' = "other"
       ELSE UNCHANGED <<batchOpen, hist, lastOp>>

\* the deferred batch resolves: the host renders and commits every lane
Resolve ==
  /\ ~SyncPending
  /\ TransPending
  /\ ~WouldSuspend
  /\ Render("all")
  /\ batchOpen' = (SiblingFires("all") /\ sibling.deferred)
  /\ hist' = [s \in Stores |->
                LET done == [i \in 1..Len(hist[s]) |->
                               [hist[s][i] EXCEPT !.resolved = TRUE]]
                IN IF SiblingFires("all") /\ sibling.store = s
                     THEN Append(done, SiblingEntry) ELSE done]
  /\ lastOp' = "other"

\* the application unmounts the tree; pending work of the tree is dropped
UnmountProvider ==
  /\ providerMounted
  /\ ~inCommit
  /\ providerMounted' = FALSE
  /\ Install(Teardown(World))
  /\ status' = [r \in Readers |-> "unmounted"]
  /\ how' = [r \in Readers |-> "none"]
  /\ previousRef' = [r \in Readers |-> NoRef]
  /\ batchOpen' = FALSE
  /\ lastOp' = "other"
  /\ hidden' = FALSE
  /\ sibling' = NoSibling
  /\ UNCHANGED <<inCommit, hist, treeOps, props, thrown, promise, simpleStore, listenerStore, emitter>>

Next ==
  \/ \E s \in Stores, d \in BOOLEAN : \E a \in actionsOf(s) : Dispatch(s, a, d)
  \/ \E r \in Readers, d \in BOOLEAN : ShowReader(r, d)
  \/ \E r \in Readers : HideReader(r, FALSE)
  \/ Flush
  \/ Resolve
  \/ UnmountProvider

Spec == Init /\ [][Next]_vars

\* the same program under a tree that never changes: one reader of each store
InitFixedTree ==
  /\ InitWith(InitialReaders)
  /\ inCommit = FALSE
  /\ batchOpen = FALSE
  /\ hist = [s \in Stores |-> <<>>]
  /\ lastOp = "other"
  /\ treeOps = 0

NextFixedTree ==
  \/ \E s \in Stores, d \in BOOLEAN : \E a \in actionsOf(s) : DispatchFixed(s, a, d)
  \/ Flush
  \/ Resolve
  \/ UnmountProvider

SpecFixedTree == InitFixedTree /\ [][NextFixedTree]_vars

\* the component holding reader r passes it another store from now on
\* (setStore(store2)), an immediate update of that component
SetStore(r, s) ==
  /\ providerMounted /\ ~inCommit /\ thrown = "none"
  /\ status[r] = "mounted"
  /\ s # props[r].store
  /\ props' = [props EXCEPT ![r].store = s]
  /\ lastOp' = "other"
  /\ UNCHANGED <<lastCall, swept, source, state, committedState, listeners, storeRefCounts,
                 allStates, trackerQueue, shown, queue, status, inCommit,
                 batchOpen, hist, treeOps, how, managerListeners,
                 providerMounted, previousRef, thrown, promise, hidden, sibling, simpleStore, listenerStore, emitter>>

\* the same with another selector function (setSelector(...))
SetSelector(r, f) ==
  /\ providerMounted /\ ~inCommit /\ thrown = "none"
  /\ status[r] = "mounted"
  /\ f # props[r].selector
  /\ props' = [props EXCEPT ![r].selector = f]
  /\ lastOp' = "other"
  /\ UNCHANGED <<lastCall, swept, source, state, committedState, listeners, storeRefCounts,
                 allStates, trackerQueue, shown, queue, status, inCommit,
                 batchOpen, hist, treeOps, how, managerListeners,
                 providerMounted, previousRef, thrown, promise, hidden, sibling, simpleStore, listenerStore, emitter>>

\* the application renders reader r in a tree without <StoreProvider>:
\* useContext gives null and the first render of the hook throws
RenderOutsideProvider(r) ==
  /\ ~inCommit /\ thrown = "none"
  /\ status[r] = "unmounted"
  /\ lastOp' = "other"
  /\ IF useStoreSelectorCheck(FALSE, props[r], NoRef) # "none"
       THEN /\ thrown' = useStoreSelectorCheck(FALSE, props[r], NoRef)
            /\ UNCHANGED shown
       ELSE /\ shown' = [shown EXCEPT ![r] = selector(r, state[storeOf(r)])]
            /\ UNCHANGED thrown
  /\ UNCHANGED <<lastCall, swept, source, state, committedState, listeners, storeRefCounts,
                 allStates, trackerQueue, queue, status, inCommit,
                 batchOpen, hist, treeOps, how, managerListeners,
                 providerMounted, props, previousRef, promise, hidden, sibling, simpleStore, listenerStore, emitter>>

NextUsage ==
  \/ \E s \in Stores, d \in BOOLEAN : \E a \in actionsOf(s) : Dispatch(s, a, d)
  \/ Flush
  \/ Resolve
  \/ UnmountProvider
  \/ \E r \in Readers, s \in Stores : SetStore(r, s)
  \/ \E r \in Readers, f \in Selectors : SetSelector(r, f)
  \/ \E r \in Readers : RenderOutsideProvider(r)

\* the program with components that change what they pass to their reader
SpecUsage == Init /\ [][NextUsage]_vars

\* -------------------------------- a component that dispatches as it mounts
\* the application shows reader r together with a component placed before it
\* whose layout effect dispatches `action` to store s (IncrementOnLayout,
\* IncrementTransitionOnLayout): the dispatch runs after r's first render and
\* before r's layout effect
ShowReaderWithSibling(r, deferredMount, s, action, deferred) ==
  /\ sibling = NoSibling
  /\ Dispatched < MaxDispatch
  /\ ShowReaderStep(r, deferredMount)
  /\ sibling' = [store |-> s, action |-> action, deferred |-> deferred]

NextMount ==
  \/ \E s \in Stores, d \in BOOLEAN : \E a \in actionsOf(s) : Dispatch(s, a, d)
  \/ \E r \in Readers, dm \in BOOLEAN, s \in Stores, d \in BOOLEAN :
        \E a \in actionsOf(s) : ShowReaderWithSibling(r, dm, s, a, d)
  \/ Flush
  \/ Resolve
  \/ UnmountProvider

SpecMount == Init /\ [][NextMount]_vars

\* ------------------------------------ one reader replaces another in a pass
\* the application hides reader `old` and shows reader `new` of the same store
\* in one update of the tree
SwapReaders(old, new, deferred) ==
  /\ providerMounted
  /\ ~inCommit
  /\ treeOps < MaxTreeOps
  /\ status[old] = "mounted"
  /\ status[new] = "unmounted"
  /\ old # new
  /\ storeOf(old) = storeOf(new)
  /\ status' = [status EXCEPT ![old] = IF deferred THEN "unmountT" ELSE "unmountS",
                              ![new] = IF deferred THEN "mountT" ELSE "mountS"]
  /\ batchOpen' = (batchOpen \/ deferred)
  /\ lastOp' = "other"
  /\ treeOps' = treeOps + 1
  /\ UNCHANGED <<lastCall, swept, source, state, committedState, listeners,
                 storeRefCounts, allStates, trackerQueue, shown, queue,
                 inCommit, hist, how, managerListeners, providerMounted,
                 usageVars, suspenseVars, sibling, simpleStore, listenerStore, emitter>>

NextSwap ==
  \/ \E s \in Stores, d \in BOOLEAN : \E a \in actionsOf(s) : Dispatch(s, a, d)
  \/ \E old, new \in Readers, d \in BOOLEAN : SwapReaders(old, new, d)
  \/ Flush
  \/ Resolve
  \/ UnmountProvider

SpecSwap == Init /\ [][NextSwap]_vars

\* ------------------------------------------------ components that suspend
\* createStore(reducer, 1) for every store
SuspenseWorld ==
  [BlankWorld EXCEPT !.source = [s \in Stores |-> 1],
                     !.state = [s \in Stores |-> 1],
                     !.committedState = [s \in Stores |-> 1]]

\* the first render of the tree of SuspendOnEven components: nothing suspends
InitSuspense ==
  /\ \E M \in {{"r1"}, {"r1", "r3"}} : InitFrom(SuspenseWorld, M)
  /\ promise = "pending"
  /\ inCommit = FALSE
  /\ batchOpen = FALSE
  /\ hist = [s \in Stores |-> <<>>]
  /\ lastOp = "other"
  /\ treeOps = 0

\* resolveSuspense()
ResolveSuspense ==
  /\ ~inCommit
  /\ promise = "pending"
  /\ promise' = "fulfilled"
  /\ lastOp' = "other"
  /\ UNCHANGED <<lastCall, swept, source, state, committedState, listeners, storeRefCounts,
                 allStates, trackerQueue, shown, queue, status, inCommit,
                 batchOpen, hist, treeOps, how, managerListeners,
                 providerMounted, usageVars, hidden, sibling, simpleStore, listenerStore, emitter>>

NextSuspense ==
  \/ \E s \in Stores : \E a \in actionsOf(s) : Dispatch(s, a, TRUE)
  \/ ShowReader("r2", FALSE)
  \/ Flush
  \/ Resolve
  \/ ResolveSuspense
  \/ UnmountProvider

SpecSuspense == InitSuspense /\ [][NextSuspense]_vars

\* ------------------------------------------- the StoreManager called directly
ImbalanceError ==
  "Imblance in concurrent-safe store reference counting. This is a bug in react-use-store, please report it."

\* new StoreManager() and the stores, no tree rendered
\* nothing is rendered and no store is tracked
NoTree ==
  /\ lastCall = BlankWorld.lastCall
  /\ swept = BlankWorld.swept
  /\ source = BlankWorld.source
  /\ state = BlankWorld.state
  /\ committedState = BlankWorld.committedState
  /\ listeners = BlankWorld.listeners
  /\ storeRefCounts = BlankWorld.storeRefCounts
  /\ allStates = BlankWorld.allStates
  /\ trackerQueue = BlankWorld.trackerQueue
  /\ shown = BlankWorld.shown
  /\ queue = BlankWorld.queue
  /\ managerListeners = BlankWorld.managerListeners
  /\ status = [r \in Readers |-> "unmounted"]
  /\ how = [r \in Readers |-> "none"]
  /\ props = [r \in Readers |-> initialProps(r)]
  /\ previousRef = [r \in Readers |-> NoRef]
  /\ thrown = "none"
  /\ promise = "none"
  /\ hidden = FALSE
  /\ sibling = NoSibling
  /\ providerMounted = FALSE
  /\ inCommit = FALSE
  /\ batchOpen = FALSE
  /\ hist = [s \in Stores |-> <<>>]
  /\ lastOp = "other"
  /\ treeOps = 0

InitManager ==
  /\ NoTree
  /\ simpleStore = NoSimpleStore
  /\ listenerStore = NoListenerStore
  /\ emitter = NoEmitter

OnlyWorld ==
  UNCHANGED <<status, inCommit, batchOpen, hist, lastOp, treeOps, how,
              providerMounted, props, previousRef, promise, hidden, sibling, simpleStore, listenerStore, emitter>>


\* the manager as a direct call finds it
Fresh == [World EXCEPT !.swept = {}]

CallAddStore(s) ==
  /\ s \in DOMAIN storeRefCounts => storeRefCounts[s] < MaxRefs
  /\ Install(addStore(Fresh, s))
  /\ thrown' = "none"
  /\ OnlyWorld

CallRemoveStore(s) ==
  /\ s \in DOMAIN storeRefCounts => storeRefCounts[s] > 0 - MaxRefs
  /\ Install(removeStore(Fresh, s))
  /\ thrown' = IF removeStoreThrows(World, s) THEN ImbalanceError ELSE "none"
  /\ OnlyWorld

CallSweep ==
  /\ Install(sweep(Fresh))
  /\ thrown' = "none"
  /\ OnlyWorld

CallCommitAllStatesWith(snapshot) ==
  /\ Install(commitAllStates(Fresh, snapshot))
  /\ thrown' = "none"
  /\ OnlyWorld

\* the snapshots a caller can hold: what the manager's getters return
Snapshots == {getAllStates(World), getAllCommittedStates(World)}

CallCommitAllStates == \E snapshot \in Snapshots : CallCommitAllStatesWith(snapshot)

\* a store is updated while no tree is rendered
CallHandleUpdate(s, action, deferred) ==
  /\ Dispatched < MaxDispatch
  /\ Install(dispatch(World, s, action, deferred))
  /\ hist' = [hist EXCEPT ![s] = Append(@, [action |-> action,
                                           deferred |-> deferred,
                                           resolved |-> FALSE])]
  /\ thrown' = "none"
  /\ UNCHANGED <<status, inCommit, batchOpen, lastOp, treeOps, how,
                 providerMounted, props, previousRef, promise, hidden, sibling, simpleStore, listenerStore, emitter>>

NextManager ==
  \/ \E s \in Stores, d \in BOOLEAN : \E a \in actionsOf(s) : CallHandleUpdate(s, a, d)
  \/ \E s \in Stores : CallAddStore(s)
  \/ \E s \in Stores : CallRemoveStore(s)
  \/ CallSweep
  \/ CallCommitAllStates

SpecManager == InitManager /\ [][NextManager]_vars

\* ------------------------------------------- the simple store (useStore.ts)
\* the values a simple store is created with or, without a reducer, is
\* updated to
SimpleValues == {0, 1, 2}

\* the actions of the counter reducer, or the new value when the store has
\* no reducer
SimpleActions(hasReducer) ==
  IF hasReducer
  THEN {[type |-> "INCREMENT", payload |-> 1], [type |-> "DECREMENT", payload |-> 1]}
  ELSE {[type |-> "VALUE", payload |-> v] : v \in SimpleValues}

simpleReducer(v, action) ==
  CASE action.type = "INCREMENT" -> v + action.payload
    [] action.type = "DECREMENT" -> v - action.payload
    [] OTHER -> v

\* JavaScript's truthiness of store._transition: undefined and 0 are falsy
Truthy(st) == st.hasTransition /\ st.transition # 0

\* createStore(initialValue, reducer?) followed by the first render
createStore(initialValue, hasReducer) ==
  [hasReducer |-> hasReducer, initialValue |-> initialValue, sync |-> initialValue,
   hasTransition |-> FALSE, transition |-> 0, current |-> initialValue,
   refreshed |-> FALSE, returned |-> initialValue, log |-> <<>>]

\* store.update(action): refresh the cache, then reduce when there is a reducer
update(st, action) ==
  LET st1 == [st EXCEPT !.refreshed = TRUE, !.log = Append(@, action)]
  IN IF st.hasReducer
     THEN [st1 EXCEPT !.transition =
                        simpleReducer(IF st.hasTransition THEN st.transition
                                                          ELSE st.sync, action),
                      !.hasTransition = TRUE]
     ELSE st1

\* useStore(store) in the render the refresh scheduled: a fresh cache from
\* store._cache(), the hydration of _sync from _transition, the cache update
useStore(st) ==
  LET cache == IF st.refreshed THEN st.initialValue ELSE st.current
      sync == IF Truthy(st) /\ st.transition # st.sync THEN st.transition
                                                      ELSE st.sync
      current == IF cache # sync THEN sync ELSE cache
  IN [st EXCEPT !.sync = sync, !.current = current, !.refreshed = FALSE,
                !.returned = current]

OnlySimpleStore ==
  UNCHANGED <<lastCall, swept, source, state, committedState, listeners, storeRefCounts,
              allStates, trackerQueue, shown, queue, status, inCommit,
              batchOpen, hist, lastOp, treeOps, how, managerListeners,
              providerMounted, usageVars, suspenseVars, sibling, listenerStore, emitter>>

InitSimple ==
  /\ NoTree
  /\ \E initialValue \in SimpleValues, hasReducer \in BOOLEAN :
       simpleStore = createStore(initialValue, hasReducer)
  /\ listenerStore = NoListenerStore
  /\ emitter = NoEmitter

CallUpdate(action) ==
  /\ Len(simpleStore.log) < MaxUpdates
  /\ simpleStore' = update(simpleStore, action)
  /\ OnlySimpleStore

RenderSimple ==
  /\ simpleStore.refreshed
  /\ simpleStore' = useStore(simpleStore)
  /\ OnlySimpleStore

NextSimple ==
  \/ \E action \in SimpleActions(simpleStore.hasReducer) : CallUpdate(action)
  \/ RenderSimple

SpecSimple == InitSimple /\ [][NextSimple]_vars

\* ------------------------------- the listener-based simple store (useStore)
\* createStore(initialValue, reducer?), then the first render and the effects
\* of the components M: each reads store._current and subscribes
createListenerStore(initialValue, hasReducer, M) ==
  [NoListenerStore EXCEPT
     !.hasReducer = hasReducer,
     !.current = initialValue, !.sync = initialValue, !.transition = initialValue,
     !.listeners = SelectSeq(ComponentOrder, LAMBDA c : c \in M),
     !.cache = [c \in Components |-> initialValue]]

\* the listener useStore subscribes for component c; `lane` is the priority
\* the host gives to a setCache made in the caller's context
listener(st, c, lane) ==
  IF st.current = st.transition
    THEN [st EXCEPT !.queue[c] = Append(@, [lane |-> lane, val |-> st.current]),
                    !.scheduled[c] = lane]
    ELSE LET st1 == [st EXCEPT !.sync = st.transition]
         IN [st1 EXCEPT !.current = st1.sync,
                        !.queue[c] = Append(@, [lane |-> "T", val |-> st1.sync]),
                        !.scheduled[c] = "T"]

\* store.refresh(): the listeners run in subscription order
RECURSIVE refresh(_, _, _)
refresh(st, i, lane) ==
  IF i > Len(st.listeners) THEN st
  ELSE refresh(listener(st, st.listeners[i], lane), i + 1, lane)

\* store.update(action), called inside a transition of the caller or not
listenerUpdate(st, action, transitionIsActive) ==
  LET st1 == [st EXCEPT
                !.transition = IF st.hasReducer THEN simpleReducer(@, action)
                                                ELSE action.payload,
                !.scheduled = [c \in Components |-> "none"],
                !.updates = @ + 1]
  IN refresh(st1, 1, IF transitionIsActive THEN "T" ELSE "S")

\* one render of every subscribed component at the given lanes
listenerRender(st, lanes) ==
  [st EXCEPT
     !.cache = [c \in Components |->
                  processQueue(st.queue[c], st.cache[c], lanes).val],
     !.queue = [c \in Components |->
                  processQueue(st.queue[c], st.cache[c], lanes).queue]]

ListenerHasLane(lane) ==
  \E c \in Components : \E i \in 1..Len(listenerStore.queue[c]) :
    listenerStore.queue[c][i].lane = lane

OnlyListenerStore ==
  UNCHANGED <<lastCall, swept, source, state, committedState, listeners, storeRefCounts,
              allStates, trackerQueue, shown, queue, status, inCommit,
              batchOpen, hist, lastOp, treeOps, how, managerListeners,
              providerMounted, usageVars, suspenseVars, sibling, simpleStore, emitter>>

InitListener ==
  /\ NoTree
  /\ simpleStore = NoSimpleStore
  /\ emitter = NoEmitter
  /\ \E initialValue \in SimpleValues, hasReducer \in BOOLEAN :
       \E M \in (SUBSET Components) \ {{}} :
         listenerStore = createListenerStore(initialValue, hasReducer, M)

CallListenerUpdate(action, transitionIsActive) ==
  /\ listenerStore.updates < MaxUpdates
  /\ listenerStore' = listenerUpdate(listenerStore, action, transitionIsActive)
  /\ OnlyListenerStore

\* the host renders the immediate lane first
RenderListenerSync ==
  /\ ListenerHasLane("S")
  /\ listenerStore' = listenerRender(listenerStore, "sync")
  /\ OnlyListenerStore

RenderListenerTransition ==
  /\ ~ListenerHasLane("S")
  /\ ListenerHasLane("T")
  /\ listenerStore' = listenerRender(listenerStore, "all")
  /\ OnlyListenerStore

NextListener ==
  \/ \E d \in BOOLEAN :
       \E action \in SimpleActions(listenerStore.hasReducer) :
         CallListenerUpdate(action, d)
  \/ RenderListenerSync
  \/ RenderListenerTransition

SpecListener == InitListener /\ [][NextListener]_vars

\* ------------------------------------------------- the Emitter used alone
\* subscribe(cb): this._listeners.push(wrapped)
emitterSubscribe(em, cb) ==
  [em EXCEPT !._listeners = Append(@, cb), !.subscribed = @ \cup {cb}]

\* the function subscribe returned: this._listeners is replaced with a
\* filtered copy; the array it held before is left as it was
emitterUnsubscribe(em, cb) ==
  [em EXCEPT !._listeners = SeqFilterOut(@, cb), !.unsubscribed = @ \cup {cb}]

\* the wrapped callback runs: cb calls the unsubscribe function it holds, if
\* the callback it is for has subscribed
call(em, cb) ==
  LET e1 == [em EXCEPT !.invoked = Append(@, cb),
                       !.late = IF cb \in em.unsubscribed THEN @ \cup {cb} ELSE @,
                       !.stale = IF cb \in em.before THEN @ \cup {cb} ELSE @]
      target == em.does[cb]
  IN IF target \in em.subscribed THEN emitterUnsubscribe(e1, target) ELSE e1

\* arr.forEach: every element of the array forEach was called on, in order
RECURSIVE forEach(_, _, _)
forEach(em, arr, i) ==
  IF i > Len(arr) THEN em ELSE forEach(call(em, arr[i]), arr, i + 1)

\* notify(): this._listeners.forEach(cb => cb())
emitterNotify(em) ==
  forEach([em EXCEPT !.invoked = <<>>, !.before = em.unsubscribed,
                     !.passes = @ + 1],
          em._listeners, 1)

OnlyEmitter ==
  UNCHANGED <<lastCall, swept, source, state, committedState, listeners, storeRefCounts,
              allStates, trackerQueue, shown, queue, status, inCommit,
              batchOpen, hist, lastOp, treeOps, how, managerListeners,
              providerMounted, usageVars, suspenseVars, sibling, simpleStore,
              listenerStore>>

InitEmitter ==
  /\ NoTree
  /\ simpleStore = NoSimpleStore
  /\ listenerStore = NoListenerStore
  /\ \E does \in [Callbacks -> Targets] : emitter = newEmitter(does)

\* a callback subscribes once
CallSubscribe(cb) ==
  /\ cb \notin emitter.subscribed
  /\ emitter' = emitterSubscribe(emitter, cb)
  /\ OnlyEmitter

\* the owner of a subscription calls its unsubscribe function, once
CallUnsubscribe(cb) ==
  /\ cb \in emitter.subscribed \ emitter.unsubscribed
  /\ emitter' = emitterUnsubscribe(emitter, cb)
  /\ OnlyEmitter

CallNotify ==
  /\ emitter.passes < MaxPasses
  /\ emitter' = emitterNotify(emitter)
  /\ OnlyEmitter

NextEmitter ==
  \/ \E cb \in Callbacks : CallSubscribe(cb)
  \/ \E cb \in Callbacks : CallUnsubscribe(cb)
  \/ CallNotify

SpecEmitter == InitEmitter /\ [][NextEmitter]_vars

\* ------------------------------------------------------------------ properties
\* A paint happens when the host has no immediate work left.
AtPaint == ~SyncPending

OnScreen(s) == {r \in Present : storeOf(r) = s}

Last(q) == q[Len(q)]

RECURSIVE FoldAll(_, _)
FoldAll(v, h) ==
  IF h = <<>> THEN v ELSE FoldAll(reducer(v, Head(h).action), Tail(h))

RECURSIVE FoldAgreed(_, _)
FoldAgreed(v, h) ==
  IF h = <<>> THEN v
  ELSE IF Head(h).deferred /\ ~Head(h).resolved THEN FoldAgreed(v, Tail(h))
  ELSE FoldAgreed(reducer(v, Head(h).action), Tail(h))

Notified(r, s) ==
  queue[r] # <<>> /\ Last(queue[r]) = [lane |-> "S", val |-> selector(r, state[s])]

\* C1: after an immediate dispatch made with state = committedState, every
\* reader of that store on screen has been notified with the new state or
\* already shows it, and at the next paint all of them show the selector of
\* the new state.
C1_PlainDispatchSeenByAll ==
  lastOp \in Stores =>
    \A r \in OnScreen(lastOp) :
       /\ Notified(r, lastOp) \/ shown[r] = selector(r, state[lastOp])
       /\ AtPaint => shown[r] = selector(r, state[lastOp])

C1_Witness ==
  /\ lastOp = "A"
  /\ AtPaint
  /\ OnScreen("A") = {"r1", "r2"}
  /\ shown["r1"] = 3 /\ shown["r2"] = 3

\* C2: an immediate dispatch of action a made while a deferred action of the
\* store is unresolved leaves committedState = reducer(committedState before, a),
\* which is the fold of the store's actions in dispatch order with the
\* unresolved deferred ones left out.
C2_ImmediateOnCommitted ==
  [][\A s \in Stores : \A a \in actionsOf(s) :
       (DispatchStep(s, a, FALSE) /\ Unresolved(s))
         => /\ committedState'[s] = reducer(committedState[s], a)
            /\ committedState'[s] = FoldAgreed(initialState(s), hist'[s])]_vars

DeferredThenImmediate(s) ==
  /\ hist[s] # <<>>
  /\ hist[s][1].deferred /\ ~hist[s][1].resolved
  /\ \A i \in 2..Len(hist[s]) : ~hist[s][i].deferred

\* C3: when the batch resolves after a deferred action followed by immediate
\* actions, state, committedState and every reader on screen equal the fold of
\* all the actions in dispatch order.
C3_ResolvedInDispatchOrder ==
  [][\A s \in Stores :
       (Resolve /\ DeferredThenImmediate(s))
         => /\ state'[s] = FoldAll(initialState(s), hist[s])
            /\ committedState'[s] = FoldAll(initialState(s), hist[s])
            /\ \A r \in OnScreen(s)' :
                 shown'[r] = selector(r, FoldAll(initialState(s), hist[s]))]_vars

\* C4: committedState is the fold of the reducer over the store's actions in
\* dispatch order, the unresolved deferred ones left out.
C4_CommittedIsAgreedFold ==
  \A s \in Stores : committedState[s] = FoldAgreed(initialState(s), hist[s])

HasFixup(r) == \E i \in 1..Len(queue[r]) : queue[r][i].lane = "S"

\* C5: a reader mounted by an immediate render while a deferred action of its
\* store is unresolved first renders the selector of state; if that is not the
\* selector of committedState the mount is not painted before the correction,
\* and at the paint the reader shows the selector of committedState, the value
\* of every other reader of the store on screen.
C5_MidTransitionMountCorrected ==
  [][Flush =>
       /\ \A r \in Mounting("sync") :
            Unresolved(storeOf(r)) =>
              /\ shown'[r] = selector(r, state[storeOf(r)])
              /\ IF AtPaint'
                   THEN /\ shown'[r] = selector(r, committedState'[storeOf(r)])
                        /\ \A o \in OnScreen(storeOf(r))' : shown'[o] = shown'[r]
                   ELSE TRUE
       /\ \A r \in Present :
            (how[r] = "mid" /\ HasFixup(r) /\ AtPaint') =>
              /\ shown'[r] = selector(r, committedState'[storeOf(r)])
              /\ \A o \in OnScreen(storeOf(r))' : shown'[o] = shown'[r]]_vars

ShowsHead(r) == shown[r] = selector(r, state[storeOf(r)])

\* C6: at every paint a reader mounted while a deferred action of its store
\* was unresolved shows the head-derived value exactly when the other readers
\* of the store do.
C6_MidTransitionMountInLockstep ==
  AtPaint =>
    \A r \in Present : how[r] = "mid" =>
      \A o \in OnScreen(storeOf(r)) : ShowsHead(o) <=> ShowsHead(r)

\* C7: a reader whose mount is part of a deferred batch is not rendered before
\* the batch resolves; the resolving render shows it with the selector of
\* state, the value of every other reader of the store, and schedules no
\* corrective render.
C7_BatchMountNoFixup ==
  [][/\ \A r \in Readers : status'[r] = "mountT" => shown'[r] = 0
     /\ Resolve =>
          \A r \in Mounting("all") :
             /\ shown'[r] = selector(r, state'[storeOf(r)])
             /\ ~HasFixup(r)'
             /\ \A o \in OnScreen(storeOf(r))' : shown'[o] = shown'[r]]_vars

\* C8: at every paint every reader on screen shows the selector of its
\* store's committedState.
C8_ShownIsCommitted ==
  AtPaint => \A r \in Present : shown[r] = selector(r, committedState[storeOf(r)])

\* C9: at every paint any two readers of one store on screen show the
\* selector of one and the same store state.
C9_NoTear ==
  AtPaint =>
    \A r \in Present : \A o \in OnScreen(storeOf(r)) : shown[o] = shown[r]

\* C10: a dispatch to one store queues no update for, and does not change the
\* output of, a reader of another store; a host pass re-renders only readers
\* with an update queued.
C10_StoreIsolation ==
  [][/\ \A s \in Stores : \A a \in actionsOf(s) : \A d \in BOOLEAN :
          DispatchStep(s, a, d) =>
            \A r \in Readers : storeOf(r) # s =>
               queue'[r] = queue[r] /\ shown'[r] = shown[r]
     /\ \A r \in Present : (queue[r] = <<>> /\ r \in Present') => shown'[r] = shown[r]]_vars

C10_Witness ==
  /\ status["r1"] = "mounted" /\ status["r3"] = "mounted"
  /\ hist["B"] # <<>>
  /\ queue["r3"] # <<>>
  /\ queue["r1"] = <<>>

Unwatched(s) == \A r \in Readers : storeOf(r) = s => status[r] = "unmounted"

\* the host has no work left: nothing changes until the application acts again
Quiescent == ~SyncPending /\ ~TransPending

\* C11: once every reader of a store has unmounted, with or without the
\* provider, and the host has finished its work, the store has 0 listeners.
C11_ListenersReleased ==
  \A s \in Stores : (Quiescent /\ Unwatched(s)) => Len(listeners[s]) = 0

\* C12: once the provider has unmounted, the manager holds no subscription on
\* any store and tracks none, and nothing is subscribed to the manager.
C12_TeardownReleasesAll ==
  ~providerMounted =>
     /\ managerListeners = <<>>
     /\ storeRefCounts = EmptySnapshot
     /\ \A s \in Stores : listeners[s] = <<>>

C12_Witness ==
  /\ ~providerMounted
  /\ Unresolved("A")
  /\ hist["B"] # <<>>

DynamicStoreError == "useStoreSelector does not currently support dynamic stores"

DynamicSelectorError == "useStoreSelector does not currently support dynamic selectors"

NoProviderError == "Expected useStoreSelector to be rendered within a StoreProvider."

\* reader r is the first reader, in tree order, passed something it did not
\* mount with
FirstChanged(r) ==
  /\ status[r] = "mounted"
  /\ props[r] # previousRef[r]
  /\ \A o \in Readers : (status[o] = "mounted" /\ props[o] # previousRef[o]) =>
        \E i, j \in 1..Len(ReaderOrder) :
           ReaderOrder[i] = r /\ ReaderOrder[j] = o /\ i <= j

\* C13: passing a mounted reader another store changes neither its output
\* nor any subscription, and the render that follows throws the dynamic-store
\* error: the reader has no output and no subscription afterwards.
C13_StoreSwapThrows ==
  [][/\ \A r \in Readers : \A s \in Stores :
          SetStore(r, s) => shown' = shown /\ listeners' = listeners
     /\ \A r \in Readers :
          (Flush /\ FirstChanged(r) /\ props[r].store # previousRef[r].store)
            => /\ thrown' = DynamicStoreError
               /\ shown'[r] = 0
               /\ \A s \in Stores : ~InSeq(r, listeners'[s])]_vars

C13_Witness ==
  /\ thrown = DynamicStoreError
  /\ props["r1"].store = "B"
  /\ hist["B"] # <<>>

C15_NoProviderThrows ==
  [][\A r \in Readers :
       RenderOutsideProvider(r)
         => /\ thrown' = NoProviderError
            /\ UNCHANGED <<storeRefCounts, listeners, managerListeners, shown>>]_vars

C15_Witness ==
  /\ thrown = NoProviderError
  /\ status["r2"] = "unmounted"
  /\ shown["r2"] = 0

\* C16: removeStore for a store without an entry throws and changes neither
\* the manager's entries nor any subscription.
C16_RemoveUntrackedThrows ==
  [][\A s \in Stores :
       (CallRemoveStore(s) /\ s \notin DOMAIN storeRefCounts)
         => /\ thrown' = ImbalanceError
            /\ UNCHANGED <<storeRefCounts, listeners, managerListeners>>]_vars

C16_Witness ==
  /\ thrown = ImbalanceError
  /\ "A" \notin DOMAIN storeRefCounts
  /\ "B" \in DOMAIN storeRefCounts

\* C17: every entry's reference count is >= 0.
C17_RefCountNonNegative ==
  \A s \in DOMAIN storeRefCounts : storeRefCounts[s] >= 0

\* no immediate render of a reader on screen suspends
SyncRenderSafe ==
  \A r \in Present : ~SuspendOnEven(processQueue(queue[r], shown[r], "sync").val)

\* C18: a reader mounted by an immediate render whose head-derived first
\* output suspends while a deferred action of its store is unresolved is not
\* committed: it is not registered, gets no correction and no subscription,
\* and the fallback is shown; it stays so until the head-derived output no
\* longer suspends.
C18_SuspendedMountStuck ==
  [][\A r \in Readers :
       /\ (/\ Flush
           /\ status[r] = "mountS"
           /\ Unresolved(storeOf(r))
           /\ promise = "pending"
           /\ selector(r, state[storeOf(r)]) % 2 = 0)
            => /\ status'[r] = "suspended"
               /\ hidden'
               /\ shown'[r] = 0
               /\ queue'[r] = <<>>
               /\ ~InSeq(r, listeners'[storeOf(r)])
               /\ storeOf(r) \in DOMAIN storeRefCounts =>
                     storeRefCounts'[storeOf(r)] <= storeRefCounts[storeOf(r)]
       /\ status[r] = "suspended"
            => /\ hidden /\ shown[r] = 0 /\ queue[r] = <<>>
               /\ ~InSeq(r, listeners[storeOf(r)])
               /\ status'[r] # "suspended" =>
                     \/ ~providerMounted'
                     \/ promise = "fulfilled"
                     \/ selector(r, state[storeOf(r)]) % 2 # 0]_vars

C18_Witness ==
  /\ status["r2"] = "suspended"
  /\ hidden
  /\ promise = "pending"
  /\ Unresolved("A")
  /\ committedState["A"] = 1
  /\ shown["r1"] = 1

\* C19: once the host has no work left, every reader on screen shows the
\* selector of the store's state, which holds every action dispatched so
\* far: no dispatch made between a reader's first render and its
\* subscription (by a component mounting with it, or deferred and made before
\* any reader was mounted) is lost to it.
C19_NoLostUpdate ==
  Quiescent => \A r \in Present : shown[r] = selector(r, state[storeOf(r)])

C19_Witness ==
  /\ Quiescent
  /\ how["r2"] = "raced"
  /\ Len(hist["A"]) = 2
  /\ hist["A"][1].deferred
  /\ shown["r2"] = FoldAll(initialState("A"), hist["A"])
  /\ shown["r1"] = shown["r2"]
\* the reducer folded over the initial value with the actions passed to update
RECURSIVE FoldSimple(_, _)
FoldSimple(v, actions) ==
  IF actions = <<>> THEN v
  ELSE FoldSimple(simpleReducer(v, Head(actions)), Tail(actions))

\* C20: once the render that follows update(a1..an) has completed, useStore
\* returns the reducer folded over the initial value with a1..an when the
\* store has a reducer, and an, the last value passed, when it has none,
\* whatever the values are (0 included)
C20_SimpleStoreReturnsFold ==
  (~simpleStore.refreshed /\ simpleStore.log # <<>>) =>
    simpleStore.returned =
      IF simpleStore.hasReducer
      THEN FoldSimple(simpleStore.initialValue, simpleStore.log)
      ELSE simpleStore.log[Len(simpleStore.log)].payload

\* the same claim for stores with a reducer whose fold never meets a falsy value
TruthyFoldReturned ==
  (/\ ~simpleStore.refreshed
   /\ simpleStore.hasReducer
   /\ \A i \in 1..Len(simpleStore.log) :
        FoldSimple(simpleStore.initialValue, SubSeq(simpleStore.log, 1, i)) # 0)
  => simpleStore.returned = FoldSimple(simpleStore.initialValue, simpleStore.log)

\* the same claim for stores without a reducer
LastValueReturned ==
  (~simpleStore.refreshed /\ ~simpleStore.hasReducer /\ simpleStore.log # <<>>)
  => simpleStore.returned = simpleStore.log[Len(simpleStore.log)].payload
\* the components subscribed to the listener-based store
Subscribed == {listenerStore.listeners[i] : i \in 1..Len(listenerStore.listeners)}

\* C21: on every store.update of the listener-based store, the setCache of
\* every subscribed component is made inside a transition, and no subscriber
\* is updated at immediate priority while another one's update is deferred
C21_EveryUpdateInTransition ==
  listenerStore.updates > 0 =>
    /\ \A c \in Subscribed : listenerStore.scheduled[c] = "T"
    /\ ~ \E c, d \in Subscribed : /\ listenerStore.scheduled[c] = "S"
                                  /\ listenerStore.scheduled[d] = "T"

\* the second half alone: one update never mixes the two priorities
NoMixedPriority ==
  ~ \E c, d \in Subscribed : /\ listenerStore.scheduled[c] = "S"
                             /\ listenerStore.scheduled[d] = "T"

\* the subscribed components show one value once the immediate lane is rendered
ListenerNoTear ==
  ~ListenerHasLane("S") =>
    \A c, d \in Subscribed : listenerStore.cache[c] = listenerStore.cache[d]
\* ------------------------------------------------ the last handleUpdate call
Called == lastCall.store # "none"

\* the three cases of handleUpdate, by what the call met on entry
DeferredCall == Called /\ lastCall.transitionIsActive

PlainCall ==
  Called /\ ~lastCall.transitionIsActive /\ lastCall.state = lastCall.committedState

RebaseCall ==
  Called /\ ~lastCall.transitionIsActive /\ lastCall.state # lastCall.committedState

\* C22 as stated: in the rebase case the value saved and restored is the
\* headState held on entry, so headState after the call equals headState
\* before the call
C22_HeadRestoredToEntry ==
  RebaseCall =>
    /\ lastCall.after.state = lastCall.state
    /\ Last(lastCall.notified).state = lastCall.state

\* C22: in the rebase case the value saved is the source's state read on entry
\* (the pending projection with the action applied), and the call ends with
\* headState equal to it: headState after the call is source.getState()
C22_HeadIsSourceState ==
  RebaseCall =>
    /\ lastCall.after.state = lastCall.source
    /\ Last(lastCall.notified).state = lastCall.source

C22_Witness ==
  /\ RebaseCall
  /\ lastCall.source # lastCall.state
  /\ lastCall.after.state = lastCall.source

\* C23: handleUpdate called inside a deferred batch sets headState to
\* source.getState(), leaves committedState as it was, and notifies once
C23_DeferredCallFrame ==
  DeferredCall =>
    /\ lastCall.after.state = lastCall.source
    /\ lastCall.after.committedState = lastCall.committedState
    /\ Len(lastCall.notified) = 1

C23_Witness ==
  /\ DeferredCall
  /\ lastCall.source # lastCall.state
  /\ lastCall.after.committedState # lastCall.after.state
  /\ Len(lastCall.notified) = 1

\* C24: handleUpdate called outside a deferred batch with headState =
\* committedState sets both to source.getState() and notifies once, the two
\* being equal when the listeners run
C24_PlainCallSetsBoth ==
  PlainCall =>
    /\ lastCall.after.state = lastCall.source
    /\ lastCall.after.committedState = lastCall.source
    /\ Len(lastCall.notified) = 1
    /\ lastCall.notified[1].state = lastCall.source
    /\ lastCall.notified[1].committedState = lastCall.source

C24_Witness ==
  /\ PlainCall
  /\ lastCall.source # lastCall.state
  /\ Len(lastCall.notified) = 1
  /\ lastCall.notified[1].state = lastCall.source

\* C25: the rebase case notifies twice: first outside any deferred batch, with
\* getState() = getCommittedState() = the rebased committed value, then inside
\* a new deferred batch, with getState() = the pending head
C25_RebaseNotifiesTwice ==
  RebaseCall =>
    /\ Len(lastCall.notified) = 2
    /\ lastCall.notified[1].lane = "S"
    /\ lastCall.notified[1].state = reducer(lastCall.committedState, lastCall.action)
    /\ lastCall.notified[1].committedState = lastCall.notified[1].state
    /\ lastCall.notified[2].lane = "T"
    /\ lastCall.notified[2].state = lastCall.source
    /\ lastCall.notified[2].committedState = lastCall.notified[1].committedState

C25_Witness ==
  /\ RebaseCall
  /\ Len(lastCall.notified) = 2
  /\ lastCall.notified[1].state # lastCall.notified[2].state
  /\ lastCall.notified[1].state # lastCall.committedState
\* the store's headState at each notify() of the last call, from what the call
\* was given: the rebased committed value then the pending head, or the new
\* head alone
HeadsAtNotify ==
  IF RebaseCall
    THEN <<reducer(lastCall.committedState, lastCall.action), lastCall.source>>
    ELSE <<lastCall.source>>

\* the step is a dispatch made by the application
DispatchNow ==
  /\ \E s \in Stores : Len(hist'[s]) > Len(hist[s])
  /\ sibling' = sibling

\* C26: at every notification a reader's listener queues the selector applied
\* to the store's headState of that moment, never to a state it captured at
\* mount or at an earlier notification
C26_ListenerReadsHeadAtNotify ==
  [][DispatchNow =>
       \A r \in Readers :
         InSeq(r, listeners[lastCall'.store]) =>
           /\ Len(queue'[r]) = Len(queue[r]) + Len(HeadsAtNotify')
           /\ \A i \in 1..Len(HeadsAtNotify') :
                queue'[r][Len(queue[r]) + i].val = selector(r, HeadsAtNotify'[i])]_vars

C26_Witness ==
  /\ RebaseCall
  /\ \E r \in Present :
       /\ InSeq(r, listeners[lastCall.store])
       /\ Len(queue[r]) >= 3
       /\ Last(queue[r]).val = selector(r, lastCall.source)
       /\ Last(queue[r]).val # queue[r][1].val
       /\ Last(queue[r]).val # shown[r]
\* C27: sweep runs once after every commit of the provider's tree, also after
\* a commit in which readers only unmount: between commits the manager holds
\* no entry with a count below 1
C27_SweptAfterEveryCommit ==
  providerMounted => \A s \in DOMAIN storeRefCounts : storeRefCounts[s] >= 1
\* the step commits a pass in which the only reader of store s unmounts and a
\* new reader of s mounts
SwapCommitted(s) ==
  /\ providerMounted'
  /\ \E old, new \in Readers :
       /\ storeOf(old) = s /\ storeOf(new) = s
       /\ status[old] \in {"unmountS", "unmountT"} /\ status'[old] = "unmounted"
       /\ status[new] \in {"mountS", "mountT"} /\ status'[new] = "mounted"
       /\ \A r \in Present \ {old} : storeOf(r) # s

\* C28: when the last reader of a store unmounts and a new reader of the same
\* store mounts in one pass, the manager's entry and subscription on the store
\* are kept: the store is not swept (unsubscribed and subscribed again)
C28_EntryKeptAcrossSwap ==
  [][\A s \in Stores :
       SwapCommitted(s) => (s \notin swept' /\ s \in DOMAIN storeRefCounts')]_vars

\* the same when the CommitTracker has no setAllStates to render in the pass
EntryKeptAcrossQuietSwap ==
  [][\A s \in Stores :
       (SwapCommitted(s) /\ trackerQueue = <<>>) =>
         (s \notin swept' /\ s \in DOMAIN storeRefCounts')]_vars
\* how many subscriptions the manager holds on store s
ManagerSubscriptions(s) ==
  Cardinality({i \in 1..Len(listeners[s]) : listeners[s][i] = "manager"})

\* C29: whatever addStore, removeStore and sweep calls were made, the manager
\* holds exactly one subscription on each store that has an entry and none on
\* a store that has none
C29_OneSubscriptionPerEntry ==
  \A s \in Stores :
    ManagerSubscriptions(s) = IF s \in DOMAIN storeRefCounts THEN 1 ELSE 0

C29_Witness ==
  /\ "A" \in DOMAIN storeRefCounts
  /\ storeRefCounts["A"] = 2
  /\ ManagerSubscriptions("A") = 1
  /\ swept = {"B"}
  /\ ManagerSubscriptions("B") = 0

\* C30: removeStore on a store that has an entry lowers its count by one and
\* does nothing else: the entry and the manager's subscription stay, also when
\* the count reaches 0
C30_RemoveStoreOnlyDecrements ==
  [][\A s \in Stores :
       (s \in DOMAIN storeRefCounts /\ CallRemoveStore(s)) =>
         /\ listeners' = listeners
         /\ swept' = {}
         /\ storeRefCounts' = [storeRefCounts EXCEPT ![s] = @ - 1]]_vars

C30_Witness ==
  /\ "A" \in DOMAIN storeRefCounts
  /\ storeRefCounts["A"] = 0
  /\ ManagerSubscriptions("A") = 1
  /\ swept = {}
  /\ thrown = "none"
\* C31: sweep unsubscribes the manager from, and removes, exactly the entries
\* whose count is below 1; every entry with a count of 1 or more keeps its
\* count and its subscription
C31_SweepRemovesExactlyDead ==
  [][CallSweep =>
       /\ \A s \in DOMAIN storeRefCounts :
            IF storeRefCounts[s] < 1
              THEN /\ s \notin DOMAIN storeRefCounts'
                   /\ ~InSeq("manager", listeners'[s])
                   /\ s \in swept'
              ELSE /\ s \in DOMAIN storeRefCounts'
                   /\ storeRefCounts'[s] = storeRefCounts[s]
                   /\ listeners'[s] = listeners[s]
                   /\ s \notin swept'
       /\ DOMAIN storeRefCounts' \subseteq DOMAIN storeRefCounts
       /\ \A s \in Stores \ DOMAIN storeRefCounts : listeners'[s] = listeners[s]]_vars

C31_Witness ==
  /\ swept = {"A"}
  /\ "A" \notin DOMAIN storeRefCounts
  /\ ~InSeq("manager", listeners["A"])
  /\ "B" \in DOMAIN storeRefCounts
  /\ storeRefCounts["B"] = 1
  /\ InSeq("manager", listeners["B"])
\* C32: commitAllStates(snapshot) sets the committedState of every store of
\* the snapshot to the state the snapshot holds for it, also of a store the
\* call then sweeps, touches no other store, and runs one sweep after it
C32_CommitAllStatesThenSweep ==
  [][\A snapshot \in Snapshots :
       CallCommitAllStatesWith(snapshot) =>
         /\ committedState' = [s \in Stores |->
                                 IF s \in DOMAIN snapshot THEN snapshot[s]
                                                          ELSE committedState[s]]
         /\ state' = state
         /\ swept' = {s \in DOMAIN storeRefCounts : storeRefCounts[s] < 1}
         /\ DOMAIN storeRefCounts' = (DOMAIN storeRefCounts) \ swept']_vars

C32_Witness ==
  /\ swept = {"A"}
  /\ lastCall.store = "A"
  /\ lastCall.transitionIsActive
  /\ lastCall.committedState # lastCall.source
  /\ committedState["A"] = lastCall.source
  /\ state["A"] = lastCall.source
\* C33: while store s has an unresolved deferred update, a step that is no
\* dispatch to s and does not resolve the batch (such as the commit of an
\* immediate update to another store) leaves committedState of s unchanged
C33_OtherStoreCommitKeepsCommitted ==
  [][\A s \in Stores :
       (/\ providerMounted'
        /\ s \in DOMAIN storeRefCounts
        /\ Unresolved(s)
        /\ hist'[s] = hist[s])
       => committedState'[s] = committedState[s]]_vars
\* reader r mounts in the commit that resolves the deferred batch of its store
MountsInResolvingCommit(r) ==
  /\ status[r] \in {"mountS", "mountT"}
  /\ status'[r] = "mounted"
  /\ Unresolved(storeOf(r))
  /\ ~Unresolved(storeOf(r))'

\* C34: in one commit the CommitTracker's commitAllStates runs before the
\* layout effect of every reader that mounts in it, so a reader that mounts in
\* the commit resolving a deferred batch finds committedState equal to the
\* resolved value: it is shown with that value and schedules no correction
C34_MountReadsResolvedCommitted ==
  [][\A r \in Readers :
       MountsInResolvingCommit(r) =>
         /\ committedState'[storeOf(r)] = state'[storeOf(r)]
         /\ shown'[r] = selector(r, state'[storeOf(r)])
         /\ queue'[r] = <<>>]_vars

\* the same for a store that had a mounted reader when the deferred action was
\* dispatched and still has it
TrackedMountReadsResolvedCommitted ==
  [][\A r \in Readers :
       (MountsInResolvingCommit(r) /\ storeOf(r) \in DOMAIN allStates
          /\ OnScreen(storeOf(r)) # {}) =>
         /\ committedState'[storeOf(r)] = state'[storeOf(r)]
         /\ shown'[r] = selector(r, state'[storeOf(r)])
         /\ queue'[r] = <<>>]_vars
\* C35: once every deferred batch has resolved and the host has no work left,
\* every store with a mounted reader has committedState = headState, also when
\* the deferred update was dispatched before the store's first reader mounted
C35_Convergence ==
  (Quiescent /\ providerMounted) =>
    \A s \in Stores : OnScreen(s) # {} => committedState[s] = state[s]

\* the same for the stores that had a mounted reader at every dispatch
ConvergenceFixedTree ==
  (Quiescent /\ providerMounted) =>
    \A s \in Stores : committedState[s] = state[s]
\* the readers of store s whose layout effect has run and whose cleanup has not
EffectsLive(s) == IF hidden THEN {} ELSE OnScreen(s)

\* C36: whatever readers mounted and unmounted under the provider, the count
\* of every store that has an entry is the number of readers of the store
\* whose mount callback has run and whose teardown has not
C36_RefCountIsLiveReaders ==
  \A s \in DOMAIN storeRefCounts :
    storeRefCounts[s] = Cardinality(EffectsLive(s))

C36_Witness ==
  /\ status["r1"] = "mounted" /\ status["r2"] = "mounted"
  /\ "A" \in DOMAIN storeRefCounts
  /\ storeRefCounts["A"] = 2
  /\ treeOps > 0
\* the world as the self-contained store of the same history would hold it
\* before a dispatch: no call recorded yet
BeforeCall == [World EXCEPT !.lastCall = NoCall]

\* C37: at every dispatch made by the application, Store.dispatch(action) of
\* the self-contained store, started from the same headState and
\* committedState, leaves the same headState, the same committedState and
\* the same notifications (each listener's queued update, the manager's, and
\* what getState()/getCommittedState() returned at each) as the external
\* source applying the reducer followed by handleUpdate(action)
C37_StoreDispatchAgrees ==
  [][\A s \in Stores :
       (Len(hist'[s]) > Len(hist[s]) /\ sibling' = sibling) =>
         LET e == Last(hist'[s])
             v == storeDispatch(BeforeCall, s, e.action, e.deferred)
         IN /\ state' = v.state
            /\ committedState' = v.committedState
            /\ lastCall'.notified = v.lastCall.notified
            /\ queue' = v.queue
            /\ trackerQueue' = v.trackerQueue]_vars

C37_Witness ==
  /\ RebaseCall
  /\ Len(lastCall.notified) = 2
  /\ lastCall.after.state # lastCall.after.committedState
  /\ lastCall.after.committedState # lastCall.committedState
  /\ source[lastCall.store] = lastCall.after.state
\* C38: an immediate update taken with headState = committedState leaves
\* committedState equal to the reducer applied to the committedState found on
\* entry, the value the rebase case computes from the same committedState
C38_PlainCommitIsRebaseValue ==
  PlainCall =>
    lastCall.after.committedState = reducer(lastCall.committedState, lastCall.action)

C38_Witness ==
  /\ PlainCall
  /\ lastCall.after.committedState # lastCall.committedState
  /\ lastCall.after.committedState = reducer(lastCall.committedState, lastCall.action)
  /\ lastCall.after.state = lastCall.after.committedState
\* what a call leaves alone when it changes no store's state and notifies
\* nobody
SameStates == state' = state /\ committedState' = committedState /\ source' = source

NobodyNotified ==
  /\ queue' = queue
  /\ trackerQueue' = trackerQueue
  /\ lastCall'.notified = lastCall.notified

\* C39: addStore, removeStore and sweep (with the subscribe and unsubscribe
\* they make) leave headState and committedState of every store as they
\* were, as does a subscribe or an unsubscribe of any listener and every
\* getter; commitAllStates, through commit(state), changes only the
\* committedState of the stores of its snapshot, no headState, and notifies
\* no listener
C39_OnlyUpdateAndCommitChangeState ==
  [][/\ (\/ \E s \in Stores : CallAddStore(s)
         \/ \E s \in Stores : CallRemoveStore(s)
         \/ CallSweep) => (SameStates /\ NobodyNotified)
     /\ \A snapshot \in Snapshots :
          CallCommitAllStatesWith(snapshot) =>
            /\ state' = state
            /\ source' = source
            /\ NobodyNotified
            /\ \A s \in Stores \ DOMAIN snapshot :
                 committedState'[s] = committedState[s]
     /\ \A s \in Stores :
          /\ \A id \in Readers \cup {"manager"} :
               /\ subscribe(World, s, id).state = state
               /\ subscribe(World, s, id).committedState = committedState
               /\ unsubscribe(World, s, id).state = state
               /\ unsubscribe(World, s, id).committedState = committedState
          /\ \A st \in {state[s], committedState[s]} :
               /\ commit(World, s, st).state = state
               /\ commit(World, s, st).committedState =
                    [committedState EXCEPT ![s] = st]
               /\ commit(World, s, st).queue = queue
               /\ commit(World, s, st).trackerQueue = trackerQueue
               /\ commit(World, s, st).lastCall.notified = lastCall.notified]_vars

\* a commitAllStates call has just committed the pending head of a store the
\* manager is subscribed to, and nothing was notified by it
C39_Witness ==
  /\ lastCall.store = "A"
  /\ lastCall.transitionIsActive
  /\ "A" \in DOMAIN storeRefCounts
  /\ InSeq("manager", listeners["A"])
  /\ lastCall.after.committedState # lastCall.after.state
  /\ committedState["A"] = state["A"]
  /\ Len(lastCall.notified) = 1

\* under a provider, headState changes at a dispatch only: no mount, unmount,
\* render or commit changes it
HeadChangesOnlyAtDispatch ==
  [][hist' = hist => (state' = state /\ source' = source)]_vars
\* C40: no callback is called after its unsubscribe function has returned,
\* in particular not later in the notify() during which an earlier callback
\* unsubscribed it
C40_UnsubscribedNeverCalled ==
  emitter.late = {}

\* a callback whose unsubscribe returned before a notify() began is not called
\* by that notify()
UnsubscribedBeforePassNotCalled ==
  emitter.stale = {}

\* every notify() calls exactly the callbacks subscribed when it began, in
\* subscription order, whatever they unsubscribe meanwhile
PassCallsListenersAtStart ==
  [][CallNotify => emitter'.invoked = emitter._listeners]_vars
====
